---- MODULE Spec2Model ----
(***************************************************************************)
(* Model of src/app.py, the AVELLON dashboard: a Streamlit script that is  *)
(* re-executed from the top on every user interaction, with a session      *)
(* dictionary that survives the re-executions.                             *)
(*                                                                         *)
(* Numbers: risk values and drifts are integers counting thousandths       *)
(* (72.4 is 72400).  Text that the program lower-cases or searches is a    *)
(* sequence of one-character strings, so that str.lower() and the `in`     *)
(* substring test are computed rather than assumed.                        *)
(***************************************************************************)
EXTENDS Integers, Sequences, FiniteSets, TLC

(* ------------------------------ bounds -------------------------------- *)

\* user-triggered script runs explored in one session
MaxRuns == 2

\* chat questions submitted in one session
MaxChat == 1

\* get_global_metrics calls explored from a warmed-up session state
MaxWalkCalls == 2

\* earlier get_global_metrics calls behind a warmed-up session state
MaxWarm == 150

\* polarity range of the sentiment scorer, in hundredths ([-1, +1])
MaxPolarity == 100

(* ------------------------- text as characters ------------------------- *)

CRITICAL ==
    <<"C", "R", "I", "T", "I", "C", "A", "L">>

HIGH ==
    <<"H", "I", "G", "H">>

MEDIUM ==
    <<"M", "E", "D", "I", "U", "M">>

LOW ==
    <<"L", "O", "W">>

HeadlineEVT884 ==
    <<"N", "a", "v", "a", "l", " ", "B", "l", "o", "c", "k", "a", "d", "e", " ", "E", "x", "e", "r", "c", "i", "s", "e", " ", "I", "n", "i", "t", "i", "a", "t", "e", "d">>

HeadlineEVT883 ==
    <<"S", "e", "v", "e", "r", "e", " ", "C", "y", "c", "l", "o", "n", "e", " ", "F", "o", "r", "m", "a", "t", "i", "o", "n">>

HeadlineEVT882 ==
    <<"L", "a", "b", "o", "r", " ", "S", "t", "r", "i", "k", "e", " ", "N", "e", "g", "o", "t", "i", "a", "t", "i", "o", "n", " ", "S", "t", "a", "l", "l", "e", "d">>

BadgePrefix ==
    <<"b", "a", "d", "g", "e", " ", "b", "a", "d", "g", "e", "-">>

KeyTaiwan ==
    <<"t", "a", "i", "w", "a", "n">>

KeyRedSea ==
    <<"r", "e", "d", " ", "s", "e", "a">>

KeyMalacca ==
    <<"m", "a", "l", "a", "c", "c", "a">>

QueryTaiwan ==
    <<"T", "a", "i", "w", "a", "n", " ", "r", "i", "s", "k">>

QueryRedSea ==
    <<"R", "E", "D", " ", "S", "E", "A">>

QueryMalacca ==
    <<"M", "a", "l", "a", "c", "c", "a">>

QueryOther ==
    <<"h", "e", "l", "l", "o">>

PhraseMissileAttack ==
    <<"m", "i", "s", "s", "i", "l", "e", " ", "a", "t", "t", "a", "c", "k">>

PhrasePortBlocked ==
    <<"p", "o", "r", "t", " ", "b", "l", "o", "c", "k", "e", "d">>

PhraseSanctionsImposed ==
    <<"s", "a", "n", "c", "t", "i", "o", "n", "s", " ", "i", "m", "p", "o", "s", "e", "d">>

PhraseCollisionAtSea ==
    <<"c", "o", "l", "l", "i", "s", "i", "o", "n", " ", "a", "t", " ", "s", "e", "a">>

TitlePortBlocked ==
    <<"P", "o", "r", "t", " ", "b", "l", "o", "c", "k", "e", "d", " ", "a", "f", "t", "e", "r", " ", "m", "i", "n", "o", "r", " ", "i", "n", "c", "i", "d", "e", "n", "t">>

TitleRecordCargo ==
    <<"P", "o", "r", "t", " ", "o", "f", " ", "S", "i", "n", "g", "a", "p", "o", "r", "e", " ", "r", "e", "p", "o", "r", "t", "s", " ", "r", "e", "c", "o", "r", "d", " ", "c", "a", "r", "g", "o", " ", "v", "o", "l", "u", "m", "e">>

TitleMissile ==
    <<"M", "I", "S", "S", "I", "L", "E", " ", "A", "T", "T", "A", "C", "K", " ", "h", "i", "t", "s", " ", "t", "a", "n", "k", "e", "r">>

TitleSanctions ==
    <<"N", "e", "w", " ", "S", "a", "n", "c", "t", "i", "o", "n", "s", " ", "I", "m", "p", "o", "s", "e", "d", " ", "o", "n", " ", "s", "h", "i", "p", "p", "i", "n", "g">>

UpperToLower ==
    ("A" :> "a") @@ ("B" :> "b") @@ ("C" :> "c") @@ ("D" :> "d") @@ ("E" :> "e") @@ ("F" :> "f") @@
    ("G" :> "g") @@ ("H" :> "h") @@ ("I" :> "i") @@ ("J" :> "j") @@ ("K" :> "k") @@ ("L" :> "l") @@
    ("M" :> "m") @@ ("N" :> "n") @@ ("O" :> "o") @@ ("P" :> "p") @@ ("Q" :> "q") @@ ("R" :> "r") @@
    ("S" :> "s") @@ ("T" :> "t") @@ ("U" :> "u") @@ ("V" :> "v") @@ ("W" :> "w") @@ ("X" :> "x") @@
    ("Y" :> "y") @@ ("Z" :> "z")


\* str.lower() on one character
LowerChar(c) ==
    IF c \in DOMAIN UpperToLower THEN UpperToLower[c] ELSE c

\* str.lower()
Lower(s) ==
    [i \in 1..Len(s) |-> LowerChar(s[i])]

\* needle in hay (Python substring test)
Contains(hay, needle) ==
    \E i \in 0..(Len(hay) - Len(needle)) :
        SubSeq(hay, i + 1, i + Len(needle)) = needle

Max(a, b) ==
    IF a >= b THEN a ELSE b

Min(a, b) ==
    IF a <= b THEN a ELSE b

(* ------------------------- program constants -------------------------- *)

\* upper clamp of the risk index, 100 in thousandths
RiskMax ==
    100000

\* longest risk_history kept
HistoryCap ==
    24

\* options of the 'Threat Level' multiselect
Levels ==
    {CRITICAL, HIGH, MEDIUM, LOW}

\* default=[...] of the 'Threat Level' multiselect
DefaultThreatLevel ==
    {CRITICAL, HIGH}

\* selections a user makes in the multiselect
ThreatSelections ==
    {{}, {CRITICAL}, DefaultThreatLevel, {MEDIUM, LOW}, Levels}

\* session_state['system_state'] as first created
SeedState ==
    [risk_index |-> 72400,
     risk_history |-> <<70000, 71000, 72000, 72400>>,
     active_alerts |-> 3,
     chat_history |-> <<>>]

\* value held in the model while the key is absent from the session
AbsentState ==
    [risk_index |-> 0, risk_history |-> <<>>, active_alerts |-> 0, chat_history |-> <<>>]

\* np.random.uniform(-0.5, 0.8): sampled drifts, on the even-thousandths
\* grid so that no modelled value sits on a rounding tie of the .2f format
Drifts ==
    {-500, 798}

\* np.random.randint(20, 55): sampled latencies
Latencies ==
    {20, 54}

\* '{x:.2f}' of a non-negative value: the decimal string, as integer part
\* and two-digit fraction, rounded to the nearest hundredth
Format2f(x) ==
    LET h == (x + 5) \div 10
    IN  [int |-> h \div 100, frac |-> h % 100]

\* the format without its '+' flag: '{drift:.2f}%'
FormatDeltaNoPlus(d) ==
    LET m == IF d < 0 THEN -d ELSE d
        h == (m + 5) \div 10
    IN  [sign |-> IF d < 0 THEN "-" ELSE "",
         int |-> h \div 100, frac |-> h % 100, suffix |-> "%"]

\* '{drift:+.2f}%': sign always printed, taken from the value itself
FormatDelta(d) ==
    LET m == IF d < 0 THEN -d ELSE d
        h == (m + 5) \div 10
    IN  [sign |-> IF d < 0 THEN "-" ELSE "+",
         int |-> h \div 100, frac |-> h % 100, suffix |-> "%"]

\* the clamp without its lower bound: min(100, x)
ClampUpperOnly(x) ==
    Min(RiskMax, x)

\* max(0, min(100, x))
Clamp(x) ==
    Max(0, Min(RiskMax, x))

\* the history update dropping the newest entry: pop() for pop(0)
AppendHistoryPopLast(history, new_risk) ==
    LET appended == Append(history, new_risk)
    IN  IF Len(appended) > HistoryCap THEN SubSeq(appended, 1, HistoryCap) ELSE appended

\* the history update: append, then drop the oldest beyond the cap
AppendHistory(history, new_risk) ==
    LET appended == Append(history, new_risk)
    IN  IF Len(appended) > HistoryCap THEN Tail(appended) ELSE appended

\* EnterpriseBackend.get_global_metrics with its two random draws as
\* arguments: the session state it leaves and the dictionary it returns
get_global_metrics(ss, drift, latency) ==
    LET current_risk == ss.risk_index
        new_risk == Clamp(current_risk + drift)
    IN  [state |-> [ss EXCEPT !.risk_index = new_risk,
                              !.risk_history = AppendHistory(ss.risk_history, new_risk)],
         ret |-> [risk_index |-> Format2f(new_risk),
                  risk_delta |-> FormatDelta(drift),
                  critical_events |-> ss.active_alerts,
                  escalating |-> 8,
                  stable_pct |-> 84,
                  latency |-> latency]]

\* a level outside the four
SEVERE ==
    <<"S", "E", "V", "E", "R", "E">>

\* the asset table with one asset carrying a level outside the four
get_map_assets_unknown_level ==
    <<[name |-> "Strait of Malacca", type |-> "Chokepoint", risk |-> SEVERE, conf |-> 98],
      [name |-> "Taiwan Strait", type |-> "Chokepoint", risk |-> HIGH, conf |-> 92],
      [name |-> "Port of Shanghai", type |-> "Port", risk |-> MEDIUM, conf |-> 85],
      [name |-> "Suez Canal", type |-> "Chokepoint", risk |-> MEDIUM, conf |-> 89],
      [name |-> "Rotterdam Hub", type |-> "Port", risk |-> LOW, conf |-> 99],
      [name |-> "Panama Canal", type |-> "Chokepoint", risk |-> LOW, conf |-> 95]>>

\* EnterpriseBackend.get_map_assets
get_map_assets ==
    <<[name |-> "Strait of Malacca", type |-> "Chokepoint", risk |-> CRITICAL, conf |-> 98],
      [name |-> "Taiwan Strait", type |-> "Chokepoint", risk |-> HIGH, conf |-> 92],
      [name |-> "Port of Shanghai", type |-> "Port", risk |-> MEDIUM, conf |-> 85],
      [name |-> "Suez Canal", type |-> "Chokepoint", risk |-> MEDIUM, conf |-> 89],
      [name |-> "Rotterdam Hub", type |-> "Port", risk |-> LOW, conf |-> 99],
      [name |-> "Panama Canal", type |-> "Chokepoint", risk |-> LOW, conf |-> 95]>>

\* the first headline again, in capitals
HeadlineEVT884Capitals ==
    <<"N", "A", "V", "A", "L", " ", "B", "L", "O", "C", "K", "A", "D", "E", " ", "E", "X", "E", "R", "C", "I", "S", "E", " ", "I", "N", "I", "T", "I", "A", "T", "E", "D">>

\* the feed with one incident reported twice, under two ids and two spellings
get_intelligence_feed_repeated ==
    <<[id |-> "EVT-884", headline |-> HeadlineEVT884, severity |-> CRITICAL, confidence |-> 98],
      [id |-> "EVT-883", headline |-> HeadlineEVT883, severity |-> HIGH, confidence |-> 94],
      [id |-> "EVT-882", headline |-> HeadlineEVT884Capitals, severity |-> CRITICAL, confidence |-> 82]>>

\* EnterpriseBackend.get_intelligence_feed
get_intelligence_feed ==
    <<[id |-> "EVT-884", headline |-> HeadlineEVT884, severity |-> CRITICAL, confidence |-> 98],
      [id |-> "EVT-883", headline |-> HeadlineEVT883, severity |-> HIGH, confidence |-> 94],
      [id |-> "EVT-882", headline |-> HeadlineEVT882, severity |-> MEDIUM, confidence |-> 82]>>

\* risk_colors.get(risk, "grey")
risk_color(risk) ==
    IF risk = CRITICAL THEN "#f85149"
    ELSE IF risk = HIGH THEN "#d29922"
    ELSE IF risk = MEDIUM THEN "#58a6ff"
    ELSE IF risk = LOW THEN "#3fb950"
    ELSE "grey"

\* the four .badge-* classes of the style sheet, as the class attribute
BadgeClasses ==
    {BadgePrefix \o Lower(l) : l \in Levels}

\* f"badge badge-{item['severity'].lower()}"
badge_class(item) ==
    BadgePrefix \o Lower(item.severity)

\* EnterpriseBackend.ai_chat_response: which canned answer is returned
\* (the answer's leading clock reading is left out)
ai_chat_response(query) ==
    LET q == Lower(query)
    IN  IF Contains(q, KeyTaiwan) THEN "taiwan"
        ELSE IF Contains(q, KeyRedSea) THEN "red sea"
        ELSE IF Contains(q, KeyMalacca) THEN "malacca"
        ELSE "system"

\* questions a user types into the chat input
Queries ==
    {QueryTaiwan, QueryRedSea, QueryMalacca, QueryOther}

\* the membership test dropped: the entry is created on every run
NotInSessionAlways(keys, key) ==
    TRUE

\* 'key' not in st.session_state
NotInSession(keys, key) ==
    key \notin keys

(* ------------------------------- state -------------------------------- *)

VARIABLES
    session_keys,     \* keys present in st.session_state
    system_state,     \* st.session_state['system_state']
    chat_history,     \* st.session_state['chat_history']
    threat_level,     \* value of the 'Threat Level' multiselect widget
    pc,               \* position of the script run; "idle" between runs
    pending_q,        \* text submitted to the chat input, <<>> for none
    pending_click,    \* id of the pressed ACTIVATE PROTOCOL button, "" for none
    runs,             \* user-triggered runs so far
    header_card,      \* RISK INDEX card shown by render_header, <<>> before
    sidebar_latency,  \* latency shown by render_sidebar, 0 before
    map_markers,      \* markers drawn by render_map_section
    velocity_chart,   \* risk_score column drawn in the analytics tab
    chat_shown,       \* messages drawn in the chat container
    rendered,         \* expanders drawn in the intelligence stream
    toasts,           \* ids a toast was shown for in this run
    run_writes,       \* writes of system_state['risk_index'] in this run
    run_appends,      \* appends to risk_history in this run
    last_call,        \* the latest get_global_metrics call: index before, drift, returned strings
    calls,            \* freely drawn get_global_metrics calls of the walk
    walk,             \* the walk's steady phase: its drift and calls so far
    entry,            \* standalone input, <<>> outside the standalone
    item              \* standalone output, <<>> before it ran

vars ==
    <<session_keys, system_state, chat_history, threat_level, pc, pending_q,
      pending_click, runs, header_card, sidebar_latency, map_markers,
      velocity_chart, chat_shown, rendered, toasts, run_writes, run_appends,
      last_call, calls, walk, entry, item>>

session ==
    <<session_keys, system_state, chat_history>>

display ==
    <<header_card, sidebar_latency, map_markers, velocity_chart, chat_shown,
      rendered, toasts>>

\* state of the stand-alone explorations, untouched by a script run
standalone ==
    <<calls, walk, entry, item>>

\* a browser session opens the page: empty session, first run about to start
Init ==
    /\ session_keys = {}
    /\ system_state = AbsentState
    /\ chat_history = <<>>
    /\ threat_level = DefaultThreatLevel
    /\ pc = "script_top"
    /\ pending_q = <<>>
    /\ pending_click = ""
    /\ runs = 1
    /\ header_card = <<>>
    /\ sidebar_latency = 0
    /\ map_markers = <<>>
    /\ velocity_chart = <<>>
    /\ chat_shown = <<>>
    /\ rendered = <<>>
    /\ toasts = {}
    /\ run_writes = 0
    /\ run_appends = 0
    /\ last_call = <<>>
    /\ calls = 0
    /\ walk = [drift |-> 0, n |-> 0]
    /\ entry = <<>>
    /\ item = <<>>

(* ----------------------------- script run ----------------------------- *)

\* module level of the script: create the session entries that are absent;
\* the page is drawn afresh
ScriptTop ==
    /\ pc = "script_top"
    /\ system_state' = IF NotInSession(session_keys, "system_state")
                       THEN SeedState ELSE system_state
    /\ chat_history' = IF NotInSession(session_keys, "chat_history")
                       THEN <<>> ELSE chat_history
    /\ session_keys' = session_keys \cup {"system_state", "chat_history"}
    /\ header_card' = <<>>
    /\ sidebar_latency' = 0
    /\ map_markers' = <<>>
    /\ velocity_chart' = <<>>
    /\ chat_shown' = <<>>
    /\ rendered' = <<>>
    /\ toasts' = {}
    /\ run_writes' = 0
    /\ run_appends' = 0
    /\ pc' = "header"
    /\ UNCHANGED <<threat_level, pending_q, pending_click, runs, last_call, standalone>>

\* the bookkeeping of one get_global_metrics call made by a render step
MetricsCall(drift, latency) ==
    LET r == get_global_metrics(system_state, drift, latency)
    IN  /\ system_state' = r.state
        /\ last_call' = <<[before |-> system_state.risk_index, drift |-> drift,
                            risk_index |-> r.ret.risk_index,
                            risk_delta |-> r.ret.risk_delta]>>
        /\ run_writes' = run_writes + 1
        /\ run_appends' = run_appends + 1

render_header ==
    /\ pc = "header"
    /\ \E drift \in Drifts, latency \in Latencies :
          /\ MetricsCall(drift, latency)
          /\ LET m == get_global_metrics(system_state, drift, latency).ret
             IN  header_card' = <<[risk_index |-> m.risk_index,
                                   risk_delta |-> m.risk_delta,
                                   critical |-> m.critical_events,
                                   escalating |-> m.escalating,
                                   stable |-> m.stable_pct]>>
    /\ pc' = "sidebar"
    /\ UNCHANGED <<session_keys, chat_history, threat_level, pending_q, pending_click,
                   runs, sidebar_latency, map_markers, velocity_chart, chat_shown,
                   rendered, toasts, standalone>>

\* the multiselect is drawn and its value dropped; the latency line calls
\* get_global_metrics once more
render_sidebar ==
    /\ pc = "sidebar"
    /\ \E drift \in Drifts, latency \in Latencies :
          /\ MetricsCall(drift, latency)
          /\ sidebar_latency' = get_global_metrics(system_state, drift, latency).ret.latency
    /\ pc' = "map"
    /\ UNCHANGED <<session_keys, chat_history, threat_level, pending_q, pending_click,
                   runs, header_card, map_markers, velocity_chart, chat_shown,
                   rendered, toasts, standalone>>

render_map_section ==
    /\ pc = "map"
    /\ LET assets == get_map_assets
       IN  map_markers' = [i \in 1..Len(assets) |->
                              [name |-> assets[i].name,
                               label |-> assets[i].risk,
                               color |-> risk_color(assets[i].risk),
                               radius |-> IF assets[i].risk = CRITICAL THEN 9 ELSE 6,
                               halo |-> assets[i].risk = CRITICAL]]
    /\ pc' = "tabs"
    /\ UNCHANGED <<session, threat_level, pending_q, pending_click, runs, header_card,
                   sidebar_latency, velocity_chart, chat_shown, rendered, toasts,
                   run_writes, run_appends, last_call, standalone>>

\* the tabs under the map when the chat input returned nothing
render_tabs ==
    /\ pc = "tabs"
    /\ pending_q = <<>>
    /\ velocity_chart' = system_state.risk_history
    /\ chat_shown' = chat_history
    /\ pc' = "feed"
    /\ UNCHANGED <<session, threat_level, pending_q, pending_click, runs, header_card,
                   sidebar_latency, map_markers, rendered, toasts,
                   run_writes, run_appends, last_call, standalone>>

\* the tabs under the map when a question was submitted: question and answer
\* are appended and st.rerun() abandons the run for a new one
chat_submit ==
    /\ pc = "tabs"
    /\ pending_q # <<>>
    /\ velocity_chart' = system_state.risk_history
    /\ chat_shown' = chat_history
    /\ chat_history' = chat_history \o
                         <<[role |-> "user", content |-> pending_q],
                           [role |-> "assistant", content |-> ai_chat_response(pending_q)]>>
    /\ pending_q' = <<>>
    /\ pc' = "script_top"
    /\ UNCHANGED <<session_keys, system_state, threat_level, pending_click, runs, header_card,
                   sidebar_latency, map_markers, rendered, toasts,
                   run_writes, run_appends, last_call, standalone>>

\* the intelligence stream: one expander per feed item, whatever the
\* multiselect holds; a pressed button shows its toast; the run ends
render_feed ==
    /\ pc = "feed"
    /\ LET feed == get_intelligence_feed
       IN  /\ rendered' = [i \in 1..Len(feed) |->
                              [headline |-> feed[i].headline,
                               severity |-> feed[i].severity,
                               badge_class |-> badge_class(feed[i]),
                               key |-> feed[i].id]]
           /\ toasts' = {feed[i].id : i \in {j \in 1..Len(feed) : feed[j].id = pending_click}}
    /\ pending_click' = ""
    /\ pc' = "idle"
    /\ UNCHANGED <<session, threat_level, pending_q, runs, header_card,
                   sidebar_latency, map_markers, velocity_chart, chat_shown,
                   run_writes, run_appends, last_call, standalone>>

(* --------------------------- user interaction ------------------------- *)

\* the user changes the 'Threat Level' selection; the script reruns
select_threat_level ==
    /\ pc = "idle"
    /\ runs < MaxRuns
    /\ \E S \in ThreatSelections :
          /\ S # threat_level
          /\ threat_level' = S
    /\ runs' = runs + 1
    /\ pc' = "script_top"
    /\ UNCHANGED <<session, pending_q, pending_click, display, run_writes, run_appends,
                   last_call, standalone>>

\* the user submits a question in the chat input; the script reruns
submit_chat ==
    /\ pc = "idle"
    /\ runs < MaxRuns
    /\ Len(chat_history) < 2 * MaxChat
    /\ \E q \in Queries : pending_q' = q
    /\ runs' = runs + 1
    /\ pc' = "script_top"
    /\ UNCHANGED <<session, threat_level, pending_click, display, run_writes, run_appends,
                   last_call, standalone>>

\* the user presses ACTIVATE PROTOCOL on a drawn item; the script reruns
press_button ==
    /\ pc = "idle"
    /\ runs < MaxRuns
    /\ \E i \in 1..Len(rendered) : pending_click' = rendered[i].key
    /\ runs' = runs + 1
    /\ pc' = "script_top"
    /\ UNCHANGED <<session, threat_level, pending_q, display, run_writes, run_appends,
                   last_call, standalone>>

Next ==
    \/ ScriptTop
    \/ render_header
    \/ render_sidebar
    \/ render_map_section
    \/ render_tabs
    \/ chat_submit
    \/ render_feed
    \/ select_threat_level
    \/ submit_chat
    \/ press_button

Spec ==
    Init /\ [][Next]_vars

(* ---------------- get_global_metrics over a long session --------------- *)

\* The index reaches 0 or 100 only after dozens of calls.  The walk follows
\* one session from its seed: first any number of calls that all draw the
\* same drift (the steady phase), then a few calls with freely drawn drifts.
InitWalk ==
    /\ session_keys = {"system_state", "chat_history"}
    /\ system_state = SeedState
    /\ chat_history = <<>>
    /\ threat_level = DefaultThreatLevel
    /\ pc = "walk"
    /\ pending_q = <<>>
    /\ pending_click = ""
    /\ runs = 1
    /\ header_card = <<>>
    /\ sidebar_latency = 0
    /\ map_markers = <<>>
    /\ velocity_chart = <<>>
    /\ chat_shown = <<>>
    /\ rendered = <<>>
    /\ toasts = {}
    /\ run_writes = 0
    /\ run_appends = 0
    /\ last_call = <<>>
    /\ calls = 0
    /\ walk \in [drift : Drifts, n : {0}]
    /\ entry = <<>>
    /\ item = <<>>

walk_steady ==
    /\ pc = "walk"
    /\ calls = 0
    /\ walk.n < MaxWarm
    /\ \E latency \in Latencies : MetricsCall(walk.drift, latency)
    /\ walk' = [walk EXCEPT !.n = walk.n + 1]
    /\ UNCHANGED <<session_keys, chat_history, threat_level, pc, pending_q, pending_click,
                   runs, display, calls, entry, item>>

walk_free ==
    /\ pc = "walk"
    /\ calls < MaxWalkCalls
    /\ \E drift \in Drifts, latency \in Latencies : MetricsCall(drift, latency)
    /\ calls' = calls + 1
    /\ UNCHANGED <<session_keys, chat_history, threat_level, pc, pending_q, pending_click,
                   runs, display, walk, entry, item>>

NextWalk ==
    \/ walk_steady
    \/ walk_free

SpecWalk ==
    InitWalk /\ [][NextWalk]_vars

(* ------------------ risk classifier of the specification --------------- *)

\* The classifier of spec section 4.3 is not part of src/app.py, whose feed
\* carries literal severities; it is modelled from the specification text.

\* the fixed critical-phrase list (4.3 step 4)
CriticalPhrases ==
    {PhraseMissileAttack, PhrasePortBlocked, PhraseSanctionsImposed, PhraseCollisionAtSea}

\* titles handed to the classifier
Titles ==
    {TitlePortBlocked, TitleRecordCargo, TitleMissile, TitleSanctions, HeadlineEVT884}

\* LOW < MEDIUM < HIGH < CRITICAL
Rank(level) ==
    IF level = LOW THEN 0
    ELSE IF level = MEDIUM THEN 1
    ELSE IF level = HIGH THEN 2
    ELSE 3

\* 4.3 step 3, polarity in hundredths
BaseLevel(polarity) ==
    IF polarity < -20 THEN HIGH
    ELSE IF polarity < -5 THEN MEDIUM
    ELSE LOW

\* 4.3 step 4: a critical phrase occurs in the title, whatever the case
KeywordOverride(title) ==
    \E phrase \in CriticalPhrases : Contains(Lower(title), phrase)

\* the override applied only to entries the sentiment already raised
classify_gated(e) ==
    LET polarity == IF e.scorer_fails THEN 0 ELSE e.polarity
    IN  [title |-> e.title,
         polarity |-> polarity,
         risk |-> IF KeywordOverride(e.title) /\ BaseLevel(polarity) # LOW
                  THEN CRITICAL ELSE BaseLevel(polarity)]

\* 4.3: a scorer that throws counts as polarity 0; the override forces CRITICAL
classify(e) ==
    LET polarity == IF e.scorer_fails THEN 0 ELSE e.polarity
    IN  [title |-> e.title,
         polarity |-> polarity,
         risk |-> IF KeywordOverride(e.title) THEN CRITICAL ELSE BaseLevel(polarity)]

InitClassify ==
    /\ session_keys = {}
    /\ system_state = AbsentState
    /\ chat_history = <<>>
    /\ threat_level = DefaultThreatLevel
    /\ pc = "classify"
    /\ pending_q = <<>>
    /\ pending_click = ""
    /\ runs = 1
    /\ header_card = <<>>
    /\ sidebar_latency = 0
    /\ map_markers = <<>>
    /\ velocity_chart = <<>>
    /\ chat_shown = <<>>
    /\ rendered = <<>>
    /\ toasts = {}
    /\ run_writes = 0
    /\ run_appends = 0
    /\ last_call = <<>>
    /\ calls = 0
    /\ walk = [drift |-> 0, n |-> 0]
    /\ \E t \in Titles, p \in (-MaxPolarity)..MaxPolarity, f \in BOOLEAN :
          entry = <<[title |-> t, polarity |-> p, scorer_fails |-> f]>>
    /\ item = <<>>

classify_entry ==
    /\ pc = "classify"
    /\ item = <<>>
    /\ item' = <<classify(entry[1])>>
    /\ UNCHANGED <<session, threat_level, pc, pending_q, pending_click, runs, display,
                   run_writes, run_appends, last_call, calls, walk, entry>>

NextClassify ==
    classify_entry

SpecClassify ==
    InitClassify /\ [][NextClassify]_vars

(* ------------------------------ properties ---------------------------- *)

\* a run has ended with the whole page drawn
RunComplete ==
    pc = "idle"

\* the printed decimal string s stands for the value x (thousandths),
\* to the nearest hundredth
Denotes(s, x) ==
    LET h == s.int * 100 + s.frac
    IN  /\ s.frac \in 0..99
        /\ 10 * h - x \in -4..4

\* C1: when a run has ended, every item drawn in the intelligence stream has
\* a severity that is a member of the 'Threat Level' selection.
C1_RenderedWithinSelection ==
    RunComplete =>
        \A i \in 1..Len(rendered) : rendered[i].severity \in threat_level

\* C2: every record of get_map_assets has a risk among the four levels and
\* every record of get_intelligence_feed a severity among them; every marker
\* drawn has a colour of the table (never the "grey" default) and every item
\* drawn has one of the four badge classes of the style sheet.
C2_RiskLevelsDefined ==
    /\ \A i \in 1..Len(get_map_assets) : get_map_assets[i].risk \in Levels
    /\ \A i \in 1..Len(get_intelligence_feed) : get_intelligence_feed[i].severity \in Levels
    /\ \A i \in 1..Len(map_markers) :
          /\ map_markers[i].label \in Levels
          /\ map_markers[i].color # "grey"
    /\ \A i \in 1..Len(rendered) :
          /\ rendered[i].severity \in Levels
          /\ rendered[i].badge_class \in BadgeClasses

\* C2 witness: a run has drawn the six markers and the three feed items
C2_Witness ==
    /\ RunComplete
    /\ Len(map_markers) = 6
    /\ Len(rendered) = 3

\* C3: no two items drawn in the intelligence stream have the same
\* lower-cased headline, and no two have the same id (the button key).
C3_RenderedKeysUnique ==
    \A i, j \in 1..Len(rendered) :
        i # j =>
            /\ Lower(rendered[i].headline) # Lower(rendered[j].headline)
            /\ rendered[i].key # rendered[j].key

\* C3 witness: the three items are drawn and lower-casing changes a headline
C3_Witness ==
    /\ Len(rendered) = 3
    /\ \E i \in 1..Len(rendered) : Lower(rendered[i].headline) # rendered[i].headline

\* C4: an entry whose title contains a critical phrase, in any case, is
\* classified CRITICAL whatever its polarity, and no entry is classified
\* below the level its polarity alone gives.
C4_OverrideMonotonic ==
    item # <<>> =>
        LET title == entry[1].title
            polarity == IF entry[1].scorer_fails THEN 0 ELSE entry[1].polarity
        IN  /\ (\E phrase \in CriticalPhrases : Contains(Lower(title), phrase))
                  => item[1].risk = CRITICAL
            /\ Rank(item[1].risk) >= Rank(BaseLevel(polarity))

\* C4 witness: a title with a critical phrase in capitals and a polarity
\* that alone gives LOW has been classified CRITICAL
C4_Witness ==
    /\ item # <<>>
    /\ entry[1].title = TitleMissile
    /\ ~entry[1].scorer_fails
    /\ entry[1].polarity >= -5
    /\ item[1].risk = CRITICAL

\* C5: once the session holds 'system_state' and 'chat_history', neither the
\* interaction that starts a run nor the top of the script changes them: a
\* run starts with the values the previous run ended with.
C5_SessionContinuity ==
    [][ ( /\ session_keys = {"system_state", "chat_history"}
          /\ pc \in {"idle", "script_top"} )
        => ( /\ system_state' = system_state
             /\ chat_history' = chat_history ) ]_vars

\* C5 witness: a later run is past the top of the script with an index that
\* left the seed, a grown history and a non-empty chat
C5_Witness ==
    /\ pc = "header"
    /\ runs >= 2
    /\ system_state.risk_index # SeedState.risk_index
    /\ Len(system_state.risk_history) > Len(SeedState.risk_history)
    /\ chat_history # <<>>

\* C6: when a run has ended, risk_index was written once and risk_history
\* grew by one entry in that run, and the RISK INDEX card shows the stored
\* risk_index.
C6_SingleWritePerRun ==
    RunComplete =>
        /\ run_writes = 1
        /\ run_appends = 1
        /\ Denotes(header_card[1].risk_index, system_state.risk_index)

\* C7 as stated: after every get_global_metrics call the drift is within
\* [-0.5, +0.8], risk_delta prints the drift, and the stored index is the
\* index before the call plus the drift.
C7_ReportedStepIsRealStep ==
    last_call # <<>> =>
        LET c == last_call[1]
        IN  /\ c.drift \in -500..800
            /\ c.risk_delta.sign = (IF c.drift < 0 THEN "-" ELSE "+")
            /\ Denotes(c.risk_delta, IF c.drift < 0 THEN -c.drift ELSE c.drift)
            /\ system_state.risk_index = c.before + c.drift

\* C7 amended: after every get_global_metrics call the drift is within
\* [-0.5, +0.8], risk_delta prints the drift with its sign to two decimals,
\* and the stored index is the index before the call plus the drift, cut
\* to 0 below and to 100 above.
C7_ReportedStepClamped ==
    last_call # <<>> =>
        LET c == last_call[1]
            sum == c.before + c.drift
        IN  /\ c.drift \in -500..800
            /\ c.risk_delta.sign = (IF c.drift < 0 THEN "-" ELSE "+")
            /\ c.risk_delta.suffix = "%"
            /\ Denotes(c.risk_delta, IF c.drift < 0 THEN -c.drift ELSE c.drift)
            /\ system_state.risk_index =
                  (IF sum > 100000 THEN 100000 ELSE IF sum < 0 THEN 0 ELSE sum)

\* C7 witness: a call whose drift would carry the index above 100
C7_Witness ==
    /\ last_call # <<>>
    /\ last_call[1].before + last_call[1].drift > 100000
    /\ last_call[1].drift > 0
    /\ system_state.risk_index = 100000

\* C8: the last element of risk_history is the stored risk_index, in the
\* seeded session and after every call, and the risk_index string the call
\* returns prints that stored value.
C8_HistoryTracksIndex ==
    /\ Len(system_state.risk_history) > 0
    /\ system_state.risk_history[Len(system_state.risk_history)] = system_state.risk_index
    /\ last_call # <<>> => Denotes(last_call[1].risk_index, system_state.risk_index)

\* C8 witness: a call on a full history, whose oldest entry was dropped,
\* and whose value the two-decimal string rounds
C8_Witness ==
    /\ last_call # <<>>
    /\ Len(system_state.risk_history) = HistoryCap
    /\ system_state.risk_history[1] # SeedState.risk_history[1]
    /\ system_state.risk_index % 10 # 0

\* C9: the stored risk_index and every element of risk_history lie within
\* [0, 100].
C9_IndexWithinBounds ==
    /\ system_state.risk_index \in 0..100000
    /\ \A i \in 1..Len(system_state.risk_history) :
          system_state.risk_history[i] \in 0..100000

\* C9 witness: a call whose drift would carry the index below 0
C9_Witness ==
    /\ last_call # <<>>
    /\ last_call[1].before + last_call[1].drift < 0
    /\ system_state.risk_index = 0
====
